---- MODULE Spec2Model ----
(***************************************************************************)
(* Visitor log (src/src/App.tsx, components/Visitor/Table.tsx,             *)
(* components/Visitor/Modals/AddVisitor.tsx) as a state machine.           *)
(*                                                                         *)
(* Text is a sequence of one-character strings.  A Date is a number of     *)
(* milliseconds.  An async handler is a slot holding the values its        *)
(* closure captured and the await it is suspended at; every await is one   *)
(* step of the store (IndexedDB) followed by the code up to the next       *)
(* await.                                                                  *)
(***************************************************************************)
EXTENDS Integers, Sequences, FiniteSets, TLC

\* ------------------------------------------------------------- bounds
MaxClock == 1
MaxKey == 2
MaxHandlers == 2
MaxView == 3
MaxFailures == 1
MaxTime == 2

\* ---------------------------------------------------------- constants
NULL == -1
MsPerSecond == 1000
purposes == <<"Meeting", "Delivery", "Interview", "Maintenance", "Other">>

Range(s) == {s[i] : i \in DOMAIN s}

\* ------------------------------------------------------------- text
EmptyText == <<>>
Digits == {"0", "1", "2", "3", "4", "5", "6", "7", "8", "9"}
WhiteSpace == {" "}
LowerOf ==
  [c \in {"A", "J", "O", "L"} |->
     CASE c = "A" -> "a" [] c = "J" -> "j" [] c = "O" -> "o" [] c = "L" -> "l"]

toLowerCase(s) ==
  [i \in DOMAIN s |-> IF s[i] \in DOMAIN LowerOf THEN LowerOf[s[i]] ELSE s[i]]

includes(s, q) ==
  \E i \in 0..(Len(s) - Len(q)) : SubSeq(s, i + 1, i + Len(q)) = q

RECURSIVE trimStart(_)
trimStart(s) ==
  IF s # <<>> /\ Head(s) \in WhiteSpace THEN trimStart(Tail(s)) ELSE s

RECURSIVE trimEnd(_)
trimEnd(s) ==
  IF s # <<>> /\ s[Len(s)] \in WhiteSpace
  THEN trimEnd(SubSeq(s, 1, Len(s) - 1))
  ELSE s

trim(s) == trimEnd(trimStart(s))

\* /^\d*$/.test(value)
isDigits(s) == \A i \in DOMAIN s : s[i] \in Digits

\* Date.prototype.toLocaleString: the date to the second
toLocaleString(d) == <<"date", d \div MsPerSecond>>

\* ---------------------------------------------------------- records
Visitor(id, name, purpose, contact, checkInTime, checkOutTime) ==
  [id |-> id, name |-> name, purpose |-> purpose, contact |-> contact,
   checkInTime |-> checkInTime, checkOutTime |-> checkOutTime]

NoVisitor == Visitor(0, EmptyText, "", EmptyText, 0, NULL)

\* --------------------------------------------------------- the view
\* the comparator of filteredVisitors' sort
compare(a, b, order) ==
  IF order = "latest" THEN b.checkInTime - a.checkInTime
  ELSE IF order = "oldest" THEN a.checkInTime - b.checkInTime
  ELSE 0

\* insert, but x goes in front of the elements it ties with
insertUnstable(s, x, order) ==
  LET keep == {i \in 1..Len(s) : compare(s[i], x, order) < 0}
      k == IF keep = {} THEN 0 ELSE CHOOSE i \in keep : \A j \in keep : j <= i
  IN SubSeq(s, 1, k) \o <<x>> \o SubSeq(s, k + 1, Len(s))

\* x put behind the last element it does not have to precede
insert(s, x, order) ==
  LET keep == {i \in 1..Len(s) : compare(s[i], x, order) <= 0}
      k == IF keep = {} THEN 0 ELSE CHOOSE i \in keep : \A j \in keep : j <= i
  IN SubSeq(s, 1, k) \o <<x>> \o SubSeq(s, k + 1, Len(s))

\* Array.prototype.sort (stable) with compare
RECURSIVE sort(_, _)
sort(s, order) ==
  IF s = <<>> THEN <<>>
  ELSE insert(sort(SubSeq(s, 1, Len(s) - 1), order), s[Len(s)], order)

RECURSIVE filterByName(_, _)
filterByName(s, query) ==
  IF s = <<>> THEN <<>>
  ELSE IF includes(toLowerCase(Head(s).name), toLowerCase(query))
       THEN <<Head(s)>> \o filterByName(Tail(s), query)
       ELSE filterByName(Tail(s), query)

view(list, query, order) == sort(filterByName(list, query), order)

\* ------------------------------------------------------------ state
VARIABLES
  store,        \* IndexedDB object store "visitors": key -> record
  keyGen,       \* the object store's key generator (autoIncrement)
  clock,        \* what new Date() returns
  visitors,     \* useState: the in-memory list
  isLoading,
  isModalOpen,
  searchQuery,
  sortOrder,
  visitorData,  \* VisitorModal's form fields
  errors,       \* VisitorModal's field errors
  initDB,       \* where the startup effect is: open, getAll, set, done, failed
  storedVisitors, \* initDB's local
  handlers,     \* the handler invocations in flight
  console,      \* messages passed to console.error
  pdf           \* body rows of the last saved visitor-list.pdf

vars == <<store, keyGen, clock, visitors, isLoading, isModalOpen, searchQuery,
          sortOrder, visitorData, errors, initDB, storedVisitors, handlers,
          console, pdf>>

filteredVisitors == view(visitors, searchQuery, sortOrder)

Slots == 1..MaxHandlers

Idle ==
  [kind |-> "idle", pc |-> "idle", visitors |-> <<>>, id |-> 0,
   visitor |-> NoVisitor]

NoData == [name |-> EmptyText, purpose |-> "", contact |-> EmptyText]
NoErrors == [name |-> "", purpose |-> "", contact |-> ""]
NoPdf == <<"none">>

\* db.getAll("visitors"): the records in key order
RECURSIVE getAllFrom(_, _)
getAllFrom(db, k) ==
  IF k >= keyGen THEN <<>>
  ELSE (IF k \in DOMAIN db THEN <<db[k]>> ELSE <<>>) \o getAllFrom(db, k + 1)

getAll(db) == getAllFrom(db, 1)

Jo == <<"J", "o">>
Al == <<"A", "l">>
Five == <<"5">>

EmptyStore == [k \in {} |-> NoVisitor]
\* what an earlier session may have left in the browser's database
EarlierStores ==
  { <<EmptyStore, 1>>,
    <<[k \in {1} |-> Visitor(1, Al, "Other", Five, 0, NULL)], 2>> }

Init ==
  /\ \E s \in EarlierStores : store = s[1] /\ keyGen = s[2]
  /\ clock = 0
  /\ visitors = <<>>
  /\ isLoading = TRUE
  /\ isModalOpen = FALSE
  /\ searchQuery = EmptyText
  /\ sortOrder = "latest"
  /\ visitorData = NoData
  /\ errors = NoErrors
  /\ initDB = "open"
  /\ storedVisitors = <<>>
  /\ handlers = [h \in Slots |-> Idle]
  /\ console = {}
  /\ pdf = NoPdf

\* ------------------------------------------------------- the startup
\* console.error(message, error); the store fails MaxFailures times at most
failed(message) ==
  /\ Cardinality(console) < MaxFailures
  /\ console' = console \cup {message}

\* useEffect: await openDB(...)
initDBOpen ==
  /\ initDB = "open"
  /\ \/ /\ initDB' = "getAll"
        /\ UNCHANGED <<console, isLoading>>
     \/ /\ initDB' = "failed"
        /\ failed("Failed to initialize database:")
        /\ isLoading' = FALSE
  /\ UNCHANGED <<store, keyGen, clock, visitors, isModalOpen, searchQuery,
                 sortOrder, visitorData, errors, storedVisitors, handlers, pdf>>

\* await db.getAll("visitors")
initDBGetAll ==
  /\ initDB = "getAll"
  /\ \/ /\ initDB' = "set"
        /\ storedVisitors' = getAll(store)
        /\ UNCHANGED <<console, isLoading>>
     \/ /\ initDB' = "failed"
        /\ failed("Failed to initialize database:")
        /\ isLoading' = FALSE
        /\ UNCHANGED storedVisitors
  /\ UNCHANGED <<store, keyGen, clock, visitors, isModalOpen, searchQuery,
                 sortOrder, visitorData, errors, handlers, pdf>>

\* setVisitors(storedVisitors); setIsLoading(false)
initDBSet ==
  /\ initDB = "set"
  /\ initDB' = "done"
  /\ visitors' = storedVisitors
  /\ isLoading' = FALSE
  /\ UNCHANGED <<store, keyGen, clock, searchQuery, sortOrder, isModalOpen,
                 visitorData, errors, storedVisitors, handlers, console, pdf>>

\* ------------------------------------------------------ the handlers
\* a handler invocation takes the first free slot
free(h) ==
  /\ handlers[h] = Idle
  /\ \A g \in Slots : g < h => handlers[g] # Idle

at(h, kind, pc) == handlers[h].kind = kind /\ handlers[h].pc = pc

goto(h, pc) == handlers' = [handlers EXCEPT ![h].pc = pc]

return(h) == handlers' = [handlers EXCEPT ![h] = Idle]

\* the catch block of a handler
catch(h, message) ==
  /\ return(h)
  /\ failed(message)
  /\ UNCHANGED <<store, keyGen, clock, visitors, isLoading, isModalOpen,
                 searchQuery, sortOrder, visitorData, errors, initDB,
                 storedVisitors, pdf>>

\* VisitorModal leaves the page: its useState values are gone
closeModal ==
  /\ isModalOpen' = FALSE
  /\ visitorData' = NoData
  /\ errors' = NoErrors

\* keys the store has handed out or is about to
keysInUse ==
  (keyGen - 1)
  + Cardinality({h \in Slots : handlers[h].kind = "add"
                                /\ handlers[h].pc \in {"open", "add"}})

\* addVisitor(visitor) up to await openDB(...)
addVisitor(h, visitor) ==
  /\ free(h)
  /\ keysInUse < MaxKey
  /\ handlers' =
       [handlers EXCEPT
          ![h] = [kind |-> "add", pc |-> "open", visitors |-> visitors,
                  id |-> 0,
                  visitor |-> Visitor(0, visitor.name, visitor.purpose,
                                      visitor.contact, 0, NULL)]]

\* openDB settles; newVisitor = {...visitor, checkInTime: new Date(), ...}
addVisitorOpen(h) ==
  /\ at(h, "add", "open")
  /\ \/ /\ handlers' = [handlers EXCEPT ![h].pc = "add",
                                        ![h].visitor.checkInTime = clock,
                                        ![h].visitor.checkOutTime = NULL]
        /\ UNCHANGED <<store, keyGen, clock, visitors, isLoading, isModalOpen,
                       searchQuery, sortOrder, visitorData, errors, initDB,
                       storedVisitors, console, pdf>>
     \/ catch(h, "Failed to add visitor:")

\* await db.add("visitors", newVisitor)
addVisitorAdd(h) ==
  /\ at(h, "add", "add")
  /\ \/ /\ store' = (keyGen :> [handlers[h].visitor EXCEPT !.id = keyGen]) @@ store
        /\ keyGen' = keyGen + 1
        /\ handlers' = [handlers EXCEPT ![h].pc = "get", ![h].id = keyGen]
        /\ UNCHANGED <<clock, visitors, isLoading, isModalOpen, searchQuery,
                       sortOrder, visitorData, errors, initDB, storedVisitors,
                       console, pdf>>
     \/ catch(h, "Failed to add visitor:")

\* await db.get("visitors", id)
addVisitorGet(h) ==
  /\ at(h, "add", "get")
  /\ \/ /\ handlers' =
             [handlers EXCEPT
                ![h].pc = "set",
                ![h].visitor = IF handlers[h].id \in DOMAIN store
                               THEN store[handlers[h].id] ELSE NoVisitor]
        /\ UNCHANGED <<store, keyGen, clock, visitors, isLoading, isModalOpen,
                       searchQuery, sortOrder, visitorData, errors, initDB,
                       storedVisitors, console, pdf>>
     \/ catch(h, "Failed to add visitor:")

\* if (addedVisitor) { setVisitors([...visitors, addedVisitor]); setIsModalOpen(false) }
addVisitorSet(h) ==
  /\ at(h, "add", "set")
  /\ return(h)
  /\ IF handlers[h].visitor # NoVisitor
     THEN /\ visitors' = Append(handlers[h].visitors, handlers[h].visitor)
          /\ closeModal
     ELSE UNCHANGED <<visitors, isModalOpen, visitorData, errors>>
  /\ UNCHANGED <<store, keyGen, clock, isLoading, searchQuery, sortOrder,
                 initDB, storedVisitors, console, pdf>>

\* Table.tsx: the Check Out button of a shown row that has no checkOutTime;
\* checkOutVisitor(id) up to await openDB(...)
checkOutVisitor(h, id) ==
  /\ ~isLoading
  /\ free(h)
  /\ \E i \in DOMAIN filteredVisitors :
       /\ filteredVisitors[i].checkOutTime = NULL
       /\ filteredVisitors[i].id # 0
       /\ filteredVisitors[i].id = id
  /\ handlers' =
       [handlers EXCEPT
          ![h] = [kind |-> "checkOut", pc |-> "open", visitors |-> visitors,
                  id |-> id, visitor |-> NoVisitor]]
  /\ UNCHANGED <<store, keyGen, clock, visitors, isLoading, isModalOpen,
                 searchQuery, sortOrder, visitorData, errors, initDB,
                 storedVisitors, console, pdf>>

checkOutVisitorOpen(h) ==
  /\ at(h, "checkOut", "open")
  /\ \/ /\ goto(h, "get")
        /\ UNCHANGED <<store, keyGen, clock, visitors, isLoading, isModalOpen,
                       searchQuery, sortOrder, visitorData, errors, initDB,
                       storedVisitors, console, pdf>>
     \/ catch(h, "Failed to check out visitor:")

\* checkOutVisitorGet, but the list is written before db.put is awaited
checkOutVisitorGetEager(h) ==
  /\ at(h, "checkOut", "get")
  /\ handlers[h].id \in DOMAIN store
  /\ handlers' =
       [handlers EXCEPT
          ![h].pc = "put",
          ![h].visitor = [store[handlers[h].id] EXCEPT !.checkOutTime = clock]]
  /\ visitors' =
       [i \in DOMAIN handlers[h].visitors |->
          IF handlers[h].visitors[i].id = handlers[h].id
          THEN [store[handlers[h].id] EXCEPT !.checkOutTime = clock]
          ELSE handlers[h].visitors[i]]
  /\ UNCHANGED <<store, keyGen, clock, isLoading, isModalOpen, searchQuery,
                 sortOrder, visitorData, errors, initDB, storedVisitors,
                 console, pdf>>

\* checkOutVisitorGet, but new Date() lands in checkInTime
checkOutVisitorGetStamp(h) ==
  /\ at(h, "checkOut", "get")
  /\ handlers[h].id \in DOMAIN store
  /\ handlers' =
       [handlers EXCEPT
          ![h].pc = "put",
          ![h].visitor = [store[handlers[h].id] EXCEPT
                            !.checkInTime = clock + 1, !.checkOutTime = clock]]
  /\ UNCHANGED <<store, keyGen, clock, visitors, isLoading, isModalOpen,
                 searchQuery, sortOrder, visitorData, errors, initDB,
                 storedVisitors, console, pdf>>

\* await db.get("visitors", id); updatedVisitor = {...visitor, checkOutTime: new Date()}
checkOutVisitorGet(h) ==
  /\ at(h, "checkOut", "get")
  /\ \/ /\ IF handlers[h].id \in DOMAIN store
           THEN handlers' =
                  [handlers EXCEPT
                     ![h].pc = "put",
                     ![h].visitor = [store[handlers[h].id] EXCEPT
                                       !.checkOutTime = clock]]
           ELSE return(h)
        /\ UNCHANGED <<store, keyGen, clock, visitors, isLoading, isModalOpen,
                       searchQuery, sortOrder, visitorData, errors, initDB,
                       storedVisitors, console, pdf>>
     \/ catch(h, "Failed to check out visitor:")

\* await db.put("visitors", updatedVisitor)
checkOutVisitorPut(h) ==
  /\ at(h, "checkOut", "put")
  /\ \/ /\ store' = (handlers[h].id :> handlers[h].visitor) @@ store
        /\ goto(h, "set")
        /\ UNCHANGED <<keyGen, clock, visitors, isLoading, isModalOpen,
                       searchQuery, sortOrder, visitorData, errors, initDB,
                       storedVisitors, console, pdf>>
     \/ catch(h, "Failed to check out visitor:")

\* setVisitors(visitors.map((v) => (v.id === id ? updatedVisitor : v)))
checkOutVisitorSet(h) ==
  /\ at(h, "checkOut", "set")
  /\ return(h)
  /\ visitors' =
       [i \in DOMAIN handlers[h].visitors |->
          IF handlers[h].visitors[i].id = handlers[h].id
          THEN handlers[h].visitor
          ELSE handlers[h].visitors[i]]
  /\ UNCHANGED <<store, keyGen, clock, isLoading, isModalOpen, searchQuery,
                 sortOrder, visitorData, errors, initDB, storedVisitors,
                 console, pdf>>

\* the Reset Data button: resetDatabase() up to await openDB(...)
resetDatabase(h) ==
  /\ ~isLoading
  /\ free(h)
  /\ handlers' =
       [handlers EXCEPT
          ![h] = [kind |-> "reset", pc |-> "open", visitors |-> visitors,
                  id |-> 0, visitor |-> NoVisitor]]
  /\ UNCHANGED <<store, keyGen, clock, visitors, isLoading, isModalOpen,
                 searchQuery, sortOrder, visitorData, errors, initDB,
                 storedVisitors, console, pdf>>

resetDatabaseOpen(h) ==
  /\ at(h, "reset", "open")
  /\ \/ /\ goto(h, "clear")
        /\ UNCHANGED <<store, keyGen, clock, visitors, isLoading, isModalOpen,
                       searchQuery, sortOrder, visitorData, errors, initDB,
                       storedVisitors, console, pdf>>
     \/ catch(h, "Failed to reset database:")

\* resetDatabaseClear, but db.clear is not awaited: the store keeps its records
resetDatabaseNoClear(h) ==
  /\ at(h, "reset", "clear")
  /\ goto(h, "set")
  /\ UNCHANGED <<store, keyGen, clock, visitors, isLoading, isModalOpen,
                 searchQuery, sortOrder, visitorData, errors, initDB,
                 storedVisitors, console, pdf>>

\* await db.clear("visitors")
resetDatabaseClear(h) ==
  /\ at(h, "reset", "clear")
  /\ \/ /\ store' = EmptyStore
        /\ goto(h, "set")
        /\ UNCHANGED <<keyGen, clock, visitors, isLoading, isModalOpen,
                       searchQuery, sortOrder, visitorData, errors, initDB,
                       storedVisitors, console, pdf>>
     \/ catch(h, "Failed to reset database:")

\* setVisitors([])
resetDatabaseSet(h) ==
  /\ at(h, "reset", "set")
  /\ return(h)
  /\ visitors' = <<>>
  /\ UNCHANGED <<store, keyGen, clock, isLoading, isModalOpen, searchQuery,
                 sortOrder, visitorData, errors, initDB, storedVisitors,
                 console, pdf>>

\* ---------------------------------------------------------- the form
\* the Add Visitor button
openModal ==
  /\ ~isLoading
  /\ ~isModalOpen
  /\ isModalOpen' = TRUE
  /\ UNCHANGED <<store, keyGen, clock, visitors, isLoading, searchQuery,
                 sortOrder, visitorData, errors, initDB, storedVisitors,
                 handlers, console, pdf>>

\* Escape, the backdrop, the close and the Cancel buttons
onClose ==
  /\ isModalOpen
  /\ closeModal
  /\ UNCHANGED <<store, keyGen, clock, visitors, isLoading, searchQuery,
                 sortOrder, initDB, storedVisitors, handlers, console, pdf>>

handleChange(name, value) ==
  /\ isModalOpen
  /\ IF name = "contact" /\ ~isDigits(value)
     THEN UNCHANGED <<visitorData, errors>>
     ELSE /\ visitorData' = [visitorData EXCEPT ![name] = value]
          /\ errors' = IF errors[name] # ""
                       THEN [errors EXCEPT ![name] = ""]
                       ELSE errors
  /\ UNCHANGED <<store, keyGen, clock, visitors, isLoading, isModalOpen,
                 searchQuery, sortOrder, initDB, storedVisitors, handlers,
                 console, pdf>>

\* validateForm's newErrors, the form holding data
newErrors(data) ==
  [name |-> IF trim(data.name) = EmptyText
            THEN "Name is required" ELSE errors.name,
   purpose |-> IF data.purpose = ""
               THEN "Purpose is required" ELSE errors.purpose,
   contact |-> IF trim(data.contact) = EmptyText
               THEN "Contact information is required" ELSE errors.contact]

\* validateForm, but the contact field is not looked at
validateFormNoContact(data) ==
  /\ trim(data.name) # EmptyText
  /\ data.purpose # ""

\* validateForm's isValid, the form holding data
validateForm(data) ==
  /\ trim(data.name) # EmptyText
  /\ data.purpose # ""
  /\ trim(data.contact) # EmptyText

\* the form is submitted holding data
handleSubmit(h, data) ==
  /\ isModalOpen
  /\ errors' = newErrors(data)
  /\ IF validateForm(data)
     THEN /\ addVisitor(h, data)
          /\ visitorData' = NoData
     ELSE /\ h = 1
          /\ visitorData' = data
          /\ UNCHANGED handlers
  /\ UNCHANGED <<store, keyGen, clock, visitors, isLoading, isModalOpen,
                 searchQuery, sortOrder, initDB, storedVisitors, console, pdf>>

\* ------------------------------------------------- view and export
setSearchQuery(value) ==
  /\ ~isLoading
  /\ searchQuery' = value
  /\ UNCHANGED <<store, keyGen, clock, visitors, isLoading, isModalOpen,
                 sortOrder, visitorData, errors, initDB, storedVisitors,
                 handlers, console, pdf>>

setSortOrder(value) ==
  /\ ~isLoading
  /\ sortOrder' = value
  /\ UNCHANGED <<store, keyGen, clock, visitors, isLoading, isModalOpen,
                 searchQuery, visitorData, errors, initDB, storedVisitors,
                 handlers, console, pdf>>

\* one body row of the exported table
tableRow(visitor) ==
  <<visitor.name, visitor.purpose, visitor.contact,
    toLocaleString(visitor.checkInTime),
    IF visitor.checkOutTime # NULL
    THEN toLocaleString(visitor.checkOutTime)
    ELSE <<"N/A">> >>

tableRows(list) == [i \in DOMAIN list |-> tableRow(list[i])]

exportAsPDF ==
  /\ ~isLoading
  /\ pdf' = tableRows(visitors)
  /\ UNCHANGED <<store, keyGen, clock, visitors, isLoading, isModalOpen,
                 searchQuery, sortOrder, visitorData, errors, initDB,
                 storedVisitors, handlers, console>>

\* new Date() later returns a later time
Tick ==
  /\ clock < MaxClock
  /\ clock' = clock + 1
  /\ UNCHANGED <<store, keyGen, visitors, isLoading, isModalOpen, searchQuery,
                 sortOrder, visitorData, errors, initDB, storedVisitors,
                 handlers, console, pdf>>

\* what App returns: the spinner, or the page around the table's rows
App(loading, modalOpen, rows) ==
  IF loading
  THEN [elements |-> {"spinner"}, rows |-> <<>>]
  ELSE [elements |->
          {"Visitor Management", "Export as PDF", "Add Visitor", "Reset Data",
           "Search by name...", "Sort by", "VisitorTable"}
          \cup (IF modalOpen THEN {"VisitorModal"} ELSE {}),
        rows |-> rows]

rendered == App(isLoading, isModalOpen, filteredVisitors)

\* ------------------------------------------------------------ inputs
NameInputs == {EmptyText, <<" ">>, Jo}
\* options of the purpose select: the disabled placeholder, the first, the last
PurposeInputs == {"", purposes[1], purposes[5]}
ContactInputs == {EmptyText, Five, <<"5", "x">>}
QueryInputs == {EmptyText, <<"j">>, <<"O">>}
SortOrders == {"latest", "oldest"}

\* what a filled-in form holds when it is submitted
SubmittedData == {[name |-> Jo, purpose |-> "Meeting", contact |-> Five]}

\* ---------------------------------------------------- specifications
Startup == initDBOpen \/ initDBGetAll \/ initDBSet

Handler(h) ==
  \/ addVisitorOpen(h)
  \/ addVisitorAdd(h)
  \/ addVisitorGet(h)
  \/ addVisitorSet(h)
  \/ \E id \in 1..MaxKey : checkOutVisitor(h, id)
  \/ checkOutVisitorOpen(h)
  \/ checkOutVisitorGet(h)
  \/ checkOutVisitorPut(h)
  \/ checkOutVisitorSet(h)
  \/ resetDatabase(h)
  \/ resetDatabaseOpen(h)
  \/ resetDatabaseClear(h)
  \/ resetDatabaseSet(h)

\* the record lifecycle: forms arrive filled in, handlers overlap
Next ==
  \/ Startup
  \/ openModal
  \/ onClose
  \/ Tick
  \/ \E h \in Slots :
       \/ \E data \in SubmittedData : handleSubmit(h, data)
       \/ Handler(h)

Spec == Init /\ [][Next]_vars

\* the form, field by field, and the check-in it starts
FormNext ==
  \/ Startup
  \/ openModal
  \/ onClose
  \/ \E value \in NameInputs : handleChange("name", value)
  \/ \E value \in PurposeInputs : handleChange("purpose", value)
  \/ \E value \in ContactInputs : handleChange("contact", value)
  \/ handleSubmit(1, visitorData)
  \/ addVisitorOpen(1)
  \/ addVisitorAdd(1)
  \/ addVisitorGet(1)
  \/ addVisitorSet(1)

FormSpec == Init /\ [][FormNext]_vars

\* one handler at a time: the next one starts when the last has returned
SeqNext ==
  \/ Startup
  \/ openModal
  \/ onClose
  \/ Tick
  \/ \E data \in SubmittedData : handleSubmit(1, data)
  \/ Handler(1)

SeqSpec == Init /\ [][SeqNext]_vars

\* the lists the view and the export are computed from
ViewRecords(id) ==
  {Visitor(id, name, "Meeting", Five, in, NULL) :
     name \in {Jo, Al}, in \in 0..MaxTime}
  \cup {Visitor(id, name, "Meeting", Five, 0, MaxTime) : name \in {Jo, Al}}

RECURSIVE ViewLists(_)
ViewLists(n) ==
  IF n = 0 THEN {<<>>}
  ELSE ViewLists(n - 1)
       \cup {Append(l, r) : l \in {m \in ViewLists(n - 1) : Len(m) = n - 1},
                            r \in ViewRecords(n)}

ViewInit ==
  /\ visitors \in ViewLists(MaxView)
  /\ store = [k \in 1..Len(visitors) |-> visitors[k]]
  /\ keyGen = Len(visitors) + 1
  /\ clock = MaxTime
  /\ isLoading = FALSE
  /\ isModalOpen = FALSE
  /\ searchQuery = EmptyText
  /\ sortOrder = "latest"
  /\ visitorData = NoData
  /\ errors = NoErrors
  /\ initDB = "done"
  /\ storedVisitors = visitors
  /\ handlers = [h \in Slots |-> Idle]
  /\ console = {}
  /\ pdf = NoPdf

ViewNext ==
  \/ \E value \in QueryInputs : setSearchQuery(value)
  \/ \E value \in SortOrders : setSortOrder(value)
  \/ exportAsPDF

ViewSpec == ViewInit /\ [][ViewNext]_vars

\* ------------------------------------------------------------ claims
quiet == \A h \in Slots : handlers[h] = Idle

\* C1: once a record has a checkOutTime, a further check-out does not
\* overwrite it: the stored and the listed checkOutTime keep the first value.
C1_CheckOutTimeKept ==
  [][/\ \A id \in DOMAIN store \cap DOMAIN store' :
          store[id].checkOutTime # NULL
          => store'[id].checkOutTime = store[id].checkOutTime
     /\ \A i \in DOMAIN visitors : \A j \in DOMAIN visitors' :
          /\ visitors[i].id = visitors'[j].id
          /\ visitors[i].checkOutTime # NULL
          /\ visitors'[j].checkOutTime # NULL
          => visitors'[j].checkOutTime = visitors[i].checkOutTime]_vars

\* C2: when every handler has returned (the startup read the store, no store
\* call failed), the list holds each stored record exactly once, as stored.
C2_ListEqualsStore ==
  quiet /\ initDB = "done" /\ console = {}
  => /\ Len(visitors) = Cardinality(DOMAIN store)
     /\ \A id \in DOMAIN store :
          Cardinality({i \in DOMAIN visitors : visitors[i] = store[id]}) = 1

\* C3: store-then-reflect. A handler in flight has not written the list
\* before its store call succeeded: until then the list is the one it started
\* with, and it reaches its setVisitors only with the store already changed. A
\* failing call ends the handler with the list as it was; the page stays.
C3_Reflected(h) ==
  /\ handlers[h].kind # "idle" /\ handlers[h].pc # "set"
     => visitors = handlers[h].visitors
  /\ at(h, "checkOut", "set")
     => /\ handlers[h].id \in DOMAIN store
        /\ store[handlers[h].id] = handlers[h].visitor
  /\ at(h, "reset", "set") => store = EmptyStore
  /\ at(h, "add", "set") /\ handlers[h].visitor # NoVisitor
     => /\ handlers[h].id \in DOMAIN store
        /\ store[handlers[h].id] = handlers[h].visitor

C3_StoreThenReflect ==
  /\ [](C3_Reflected(1))
  /\ [][handlers[1].kind # "idle" /\ handlers[1].pc # "set" /\ handlers'[1] = Idle
        => /\ visitors' = visitors
           /\ visitors' = handlers[1].visitors
           /\ "VisitorTable" \in App(isLoading', isModalOpen', <<>>).elements]_vars

\* C3's case: a check-out failed and the list still shows the visitor in
C3_Witness ==
  /\ "Failed to check out visitor:" \in console
  /\ quiet
  /\ visitors # <<>>
  /\ \E i \in DOMAIN visitors : visitors[i].checkOutTime = NULL

\* C4: a checkOutTime that is set is never null again while the record is
\* there, in the store and in the list.
C4_CheckedOutIsTerminal ==
  [][/\ \A id \in DOMAIN store \cap DOMAIN store' :
          store[id].checkOutTime # NULL => store'[id].checkOutTime # NULL
     /\ \A i \in DOMAIN visitors : \A j \in DOMAIN visitors' :
          visitors[i].id = visitors'[j].id /\ visitors[i].checkOutTime # NULL
          => visitors'[j].checkOutTime # NULL]_vars

\* C5: resetDatabase clears the store before it empties the list, and when it
\* returns after a successful clear both are empty.
C5_ResetEmptiesBoth ==
  /\ [](/\ at(1, "reset", "set") => store = EmptyStore
        /\ handlers[1].kind = "reset" /\ handlers[1].pc # "set"
           => visitors = handlers[1].visitors)
  /\ [][at(1, "reset", "set") /\ handlers'[1] = Idle
        => store' = EmptyStore /\ visitors' = <<>>]_vars

\* C5's case: after a check-in, the store is cleared and the list not yet
C5_Witness ==
  /\ at(1, "reset", "set")
  /\ store = EmptyStore
  /\ visitors # <<>>
  /\ keyGen > 1

\* C6: only a submission with a name, a listed purpose and an all-digit,
\* non-empty contact reaches addVisitor: nothing else is ever in a handler, in
\* the store or in the list, and a rejected submission changes none of them.
C6_Valid(v) ==
  /\ v.name # EmptyText
  /\ v.purpose \in Range(purposes)
  /\ v.contact # EmptyText
  /\ isDigits(v.contact)

C6_Rejected(data) ==
  \/ data.name = EmptyText
  \/ data.purpose \notin Range(purposes)
  \/ data.contact = EmptyText
  \/ ~isDigits(data.contact)

C6_InvalidRejected ==
  /\ [](/\ \A h \in Slots : handlers[h].kind = "add" => C6_Valid(handlers[h].visitor)
        /\ \A id \in DOMAIN store : C6_Valid(store[id])
        /\ \A i \in DOMAIN visitors : C6_Valid(visitors[i])
        /\ isDigits(visitorData.contact))
  /\ [][handleSubmit(1, visitorData) /\ C6_Rejected(visitorData)
        => UNCHANGED <<handlers, store, keyGen, visitors, visitorData>>]_vars

\* C6's case: a submission without name and contact was turned down
C6_Witness ==
  /\ errors.name = "Name is required"
  /\ errors.contact = "Contact information is required"
  /\ visitorData.purpose = "Other"
  /\ handlers[1] = Idle

\* C7: the exported rows are the rows the table shows: the filtered list in
\* the chosen order, one row each, "N/A" for a missing checkOutTime.
C7_ExportIsTheView ==
  [][pdf' # pdf => pdf' = tableRows(filteredVisitors)]_vars

\* C8: the view's order.
C8_Position(list, id) == CHOOSE i \in DOMAIN list : list[i].id = id

C8_Reverse(s) == [i \in DOMAIN s |-> s[Len(s) + 1 - i]]

C8_Ordered(query) ==
  LET shown == filterByName(visitors, query)
      latest == view(visitors, query, "latest")
      oldest == view(visitors, query, "oldest")
  IN /\ Len(latest) = Len(shown) /\ Range(latest) = Range(shown)
     /\ Len(oldest) = Len(shown) /\ Range(oldest) = Range(shown)
     /\ \A i, j \in DOMAIN shown :
          i < j =>
            /\ latest[i].checkInTime >= latest[j].checkInTime
            /\ oldest[i].checkInTime <= oldest[j].checkInTime
            /\ latest[i].checkInTime = latest[j].checkInTime
               => C8_Position(shown, latest[i].id) < C8_Position(shown, latest[j].id)
            /\ oldest[i].checkInTime = oldest[j].checkInTime
               => C8_Position(shown, oldest[i].id) < C8_Position(shown, oldest[j].id)
     /\ view(visitors, query, "none") = shown
     /\ (\A i, j \in DOMAIN shown :
           i # j => shown[i].checkInTime # shown[j].checkInTime)
        => oldest = C8_Reverse(latest)

C8_ViewOrder ==
  /\ [](/\ C8_Ordered(searchQuery)
        /\ sortOrder = "latest" => filteredVisitors = view(visitors, searchQuery, "latest")
        /\ sortOrder = "oldest" => filteredVisitors = view(visitors, searchQuery, "oldest"))
  /\ [][sortOrder' # sortOrder \/ searchQuery' # searchQuery
        => visitors' = visitors]_vars

\* C8's case: three rows shown oldest first, two of them checked in at the
\* same time, in another order than the list's
C8_Witness ==
  /\ sortOrder = "oldest"
  /\ Len(filteredVisitors) = 3
  /\ filteredVisitors # filterByName(visitors, searchQuery)
  /\ filteredVisitors[1].checkInTime = filteredVisitors[2].checkInTime
  /\ filteredVisitors[2].checkInTime < filteredVisitors[3].checkInTime

\* C9: a check-out of a record without checkOutTime stores the record with a
\* checkOutTime not before its checkInTime and with every other field as it was.
C9_CheckOutStored ==
  /\ [](\A id \in DOMAIN store :
          store[id].checkOutTime # NULL
          => store[id].checkOutTime >= store[id].checkInTime)
  /\ [][\A id \in DOMAIN store :
          at(1, "checkOut", "put") /\ handlers[1].id = id
          /\ handlers'[1].pc = "set" /\ store[id].checkOutTime = NULL
          => /\ id \in DOMAIN store'
             /\ store'[id].checkOutTime # NULL
             /\ store'[id].checkOutTime >= store'[id].checkInTime
             /\ store'[id] = [store[id] EXCEPT
                                !.checkOutTime = store'[id].checkOutTime]]_vars

\* C9's case: a visitor checked out later than they checked in
C9_Witness ==
  /\ at(1, "checkOut", "set")
  /\ handlers[1].id \in DOMAIN store
  /\ store[handlers[1].id].checkOutTime > store[handlers[1].id].checkInTime

\* C10: when the startup fails, loading ends, the list is empty and the page
\* shows a notice of the failure: it is not the page of an empty log.
C10_StartupFailureShown ==
  [][initDB' = "failed" /\ initDB # "failed"
     => /\ ~isLoading'
        /\ visitors' = <<>>
        /\ App(isLoading', isModalOpen', view(visitors', searchQuery', sortOrder'))
             # App(FALSE, FALSE, <<>>)]_vars

\* C10, the part the code keeps: with the startup effect scheduled, loading
\* ends whether the store opens or not, and a failed startup leaves no list.
FairSpec == SeqSpec /\ WF_vars(Startup)

C10_LoadingEnds ==
  /\ <>(~isLoading)
  /\ [][initDB' = "failed" /\ initDB # "failed"
        => ~isLoading' /\ visitors' = <<>>]_vars

====
